---- MODULE Spec2Model ----
(***************************************************************************)
(* A model of peachpy/writer.py: the process-wide active_writer slot, the   *)
(* scoped lifecycle (__enter__/__exit__) of the five writers, and the       *)
(* section / symbol / relocation bookkeeping of add_function.               *)
(*                                                                         *)
(* Bytes are naturals 0..255 and section contents are sequences of bytes.  *)
(* 64-bit quantities are kept as 8 base-256 digits, least significant      *)
(* first, so that (symbol_index << 32) | type and -4 & 0xFFFFFFFFFFFFFFFF  *)
(* keep their width.                                                       *)
(*                                                                         *)
(* Every writer instance has an output path of its own; the file at that   *)
(* path is fs[w].  The Image, the string table, the symbol table and the   *)
(* Encoder live outside writer.py and are modelled from their description  *)
(* (an append-only table whose add returns the new entry's index, bound    *)
(* sections numbered in bind order, fixed-width integer encoding).         *)
(***************************************************************************)
EXTENDS Integers, Sequences, FiniteSets, TLC

VARIABLES
  active_writer,    \* the module global: a writer id or None
  previous_writer,  \* self.previous_writer of every writer instance
  output_file,      \* self.output_file: "unset" (never assigned), "open", "closed", "None"
  fs,               \* the file at self.output_path: [exists, data]
  writers,          \* the format state of every writer instance
  stack,            \* the open with-blocks, innermost last: [w, saved]
  exc,              \* the exception in flight, "none" when there is none
  added,            \* the functions whose add_function call returned normally
  last,             \* the writer operation that acted last
  buffer,           \* what self.output_file holds that has not reached the file
  position,         \* the offset in the file at which self.output_file writes next
  python            \* the major version of the interpreter that runs the program

vars ==
  <<active_writer, previous_writer, output_file, fs, writers, stack, exc, added, last,
    buffer, position, python>>

(***************************************************************************)
(* Bounds of the model.                                                    *)
(***************************************************************************)
MaxWriters == 2      \* writer instances the program constructs (Spec)
MaxAdds == 1         \* add_function calls that return normally in a run (Spec)
MaxFunctions == 3    \* add_function calls on the ELF writer (SpecELF)
MaxDepth == 3        \* with blocks open at a time (SpecReentrant)
MaxPieces == 6       \* pieces of text in a file and its buffer before an add
MaxText == 4         \* bytes of .text after which no function is added (SpecImage)

None == "None"

\* One instance of every writer class; the program constructs some of them.
Writers == {"text", "elf", "macho", "mscoff", "null"}

FileWriters == Writers \ {"null"}

BinaryWriters == {"elf", "macho", "mscoff"}

(***************************************************************************)
(* Fixed-width integers.                                                   *)
(***************************************************************************)
RECURSIVE Digits(_, _)
\* The k low base-256 digits of the natural n, least significant first.
Digits(n, k) == IF k = 0 THEN <<>> ELSE <<n % 256>> \o Digits(n \div 256, k - 1)

RECURSIVE FromDigits(_)
\* The natural a digit sequence stands for (least significant first).
FromDigits(d) == IF d = <<>> THEN 0 ELSE d[1] + 256 * FromDigits(Tail(d))

RECURSIVE BitOr(_, _)
\* a | b on naturals.
BitOr(a, b) ==
  IF a = 0 THEN b
  ELSE IF b = 0 THEN a
  ELSE (IF a % 2 = 1 \/ b % 2 = 1 THEN 1 ELSE 0) + 2 * BitOr(a \div 2, b \div 2)

\* A natural as a 64-bit quantity.
Word64(n) == Digits(n, 8)

\* x << 32 on a 64-bit quantity.
ShiftLeft32(d) == <<0, 0, 0, 0>> \o SubSeq(d, 1, 4)

\* x | y on 64-bit quantities.
Or64(d, e) == [i \in 1..8 |-> BitOr(d[i], e[i])]

\* n & 0xFFFFFFFFFFFFFFFF for an integer n: two's complement for n < 0.
Mask64(n) ==
  IF n >= 0 THEN Word64(n)
  ELSE [i \in 1..8 |-> 255 - Word64((-n) - 1)[i]]

\* The signed integer a 64-bit quantity stands for.
Signed64(d) ==
  IF d[8] >= 128 THEN -(FromDigits([i \in 1..8 |-> 255 - d[i]]) + 1)
  ELSE FromDigits(d)

Reverse(s) == [i \in 1..Len(s) |-> s[Len(s) + 1 - i]]

\* Encoder(endianness, bitness).uint64(x): eight bytes in the ABI's byte order.
EncoderUint64(abi, d) == IF abi.endianness = "little" THEN d ELSE Reverse(d)

\* The 64-bit quantity stored in eight bytes of the ABI's byte order.
DecodeUint64(abi, bytes) == IF abi.endianness = "little" THEN bytes ELSE Reverse(bytes)

(***************************************************************************)
(* The functions handed to add_function: what function.name,               *)
(* function.encode() and function.format() give.                           *)
(***************************************************************************)
ConstSym(n, o, s) == [name |-> n, offset |-> o, size |-> s]

Reloc(o, s) == [offset |-> o, symbol |-> s]

Function(n, bound, code, const, syms, relocs) ==
  [name |-> n, abi_bound |-> bound,
   encoded |-> [code_content |-> code, const_content |-> const,
                const_symbols |-> syms, code_relocations |-> relocs]]

\* isinstance(function, peachpy.x86_64.function.ABIFunction)
IsAnyFunction(function) == TRUE

IsABIFunction(function) == function.abi_bound

\* No constants, no relocations.
FnPlain == Function("f", TRUE, <<1>>, <<>>, <<>>, <<>>)

\* One constant, referenced once.
FnConst == Function("g", TRUE, <<2, 2>>, <<9, 9>>, <<ConstSym("c", 0, 2)>>, <<Reloc(1, "c")>>)

\* A constant with the name of FnConst's constant.
FnSameName == Function("h", TRUE, <<3>>, <<8>>, <<ConstSym("c", 0, 1)>>, <<Reloc(0, "c")>>)

\* Two constants, referenced in the other order.
FnTwoConst ==
  Function("k", TRUE, <<4, 4>>, <<7, 6>>, <<ConstSym("c", 0, 1), ConstSym("d", 1, 1)>>,
           <<Reloc(0, "d"), Reloc(1, "c")>>)

\* Constant data with a symbol that no instruction references.
FnNoReloc == Function("m", TRUE, <<5>>, <<5>>, <<ConstSym("e", 0, 1)>>, <<>>)

\* The encoder's outputs the ELF writer is driven with.
EncodedFunctions == {FnPlain, FnConst, FnSameName, FnTwoConst, FnNoReloc}

\* A function that is not bound to an ABI.
FnUnbound == Function("u", FALSE, <<6>>, <<>>, <<>>, <<>>)

\* A named constant symbol, referenced once, and no constant data.
FnSymsNoData == Function("s", TRUE, <<7>>, <<>>, <<ConstSym("z", 0, 0)>>, <<Reloc(0, "z")>>)

\* A relocation that names a constant the function does not define.
FnBadReloc == Function("b", TRUE, <<8>>, <<>>, <<>>, <<Reloc(0, "x")>>)

\* What a caller can hand to add_function of an image writer: outputs of the
\* encoder, well-formed or not, and functions without an ABI.
ImageFunctions == {FnPlain, FnConst, FnNoReloc, FnUnbound, FnSymsNoData, FnBadReloc}

\* What a caller hands to add_function of the text writer.
TextFunctions == {FnPlain, FnConst, FnUnbound}

\* The functions the writers are driven with inside scopes.
ScopeFunctions == {FnConst}

\* function.format(assembly_format): the rendered text of a function.
Format(function, assembly_format) == <<assembly_format, function.name>>

\* encoded_function.as_bytearray: the flat blob of code and constant data.
AsBlob(enc) == enc.code_content \o enc.const_content

(***************************************************************************)
(* ELF image bookkeeping.                                                  *)
(***************************************************************************)
R_X86_64_PC32 == 2

NoSection == [is_none |-> TRUE, index |-> 0, content |-> <<>>]

NoRelaSection ==
  [is_none |-> TRUE, index |-> 0, content |-> <<>>, content_type |-> "Null",
   content_size |-> 0, link_index |-> 0, info |-> 0, entry_size |-> 0]

\* The sections an Image holds before the writer binds any: index = position.
ImageSections == <<".shstrtab", ".strtab", ".symtab">>

RECURSIVE IndexOf(_, _)
\* The position of the first occurrence of x in s, 0 when absent.
IndexOf(s, x) ==
  IF s = <<>> THEN 0
  ELSE IF s[Len(s)] = x /\ IndexOf(SubSeq(s, 1, Len(s) - 1), x) = 0 THEN Len(s)
  ELSE IndexOf(SubSeq(s, 1, Len(s) - 1), x)

\* image.bind_section(section, name): the index the section gets.
BindIndex(sections) == Len(sections) + 1

\* image.strtab.add(name): the index of the new entry; names are not deduplicated.
StrtabAdd(strtab, name) == [strtab |-> Append(strtab, name), index |-> Len(strtab) + 1]

\* image.symtab.add(symbol): the index of the new entry.
SymtabAdd(symtab, symbol) == [symtab |-> Append(symtab, symbol), index |-> Len(symtab) + 1]

\* ELFWriter.__init__
ELFWriterInit(abi) ==
  [abi |-> abi,
   sections |-> Append(ImageSections, ".text"),
   text_section |-> [is_none |-> FALSE, index |-> BindIndex(ImageSections), content |-> <<>>],
   text_rela_section |-> NoRelaSection,
   rodata_section |-> NoSection,
   strtab |-> <<>>,
   symtab |-> <<>>,
   symtab_bound |-> FALSE]

\* function_offset = len(self.text_section.content)
ELFFunctionOffsetAfterAppend(wr, enc) == Len(wr.text_section.content) + Len(enc.code_content)

ELFFunctionOffset(wr, enc) == Len(wr.text_section.content)

\* self.text_section.append(encoded_function.code_content)
ELFAppendCode(wr, enc) ==
  [wr EXCEPT !.text_section.content = @ \o enc.code_content]

\* The lazily bound .rodata and the constant data appended to it.
ELFAppendConstAlways(wr, enc) ==
  LET bound == IF wr.rodata_section.is_none
               THEN [wr EXCEPT !.rodata_section =
                                  [is_none |-> FALSE, index |-> BindIndex(wr.sections),
                                   content |-> <<>>],
                               !.sections = Append(@, ".rodata")]
               ELSE wr
  IN [bound EXCEPT !.rodata_section.content = @ \o enc.const_content]

ELFAppendConst(wr, enc) ==
  IF enc.const_content # <<>>
  THEN LET bound == IF wr.rodata_section.is_none
                    THEN [wr EXCEPT !.rodata_section =
                                       [is_none |-> FALSE, index |-> BindIndex(wr.sections),
                                        content |-> <<>>],
                                    !.sections = Append(@, ".rodata")]
                    ELSE wr
       IN [bound EXCEPT !.rodata_section.content = @ \o enc.const_content]
  ELSE wr

\* function_rodata_offset: 0, or the length of .rodata before the append.
ELFRodataOffset(wr, enc) ==
  IF enc.const_content # <<>> /\ ~wr.rodata_section.is_none
  THEN Len(wr.rodata_section.content)
  ELSE 0

\* symbol_map[symbol.name] = const_symbol_index
SymbolMapOffByOne(symbol_map, name, index) ==
  [n \in DOMAIN symbol_map \cup {name} |-> IF n = name THEN index - 1 ELSE symbol_map[n]]

SymbolMapSet(symbol_map, name, index) ==
  [n \in DOMAIN symbol_map \cup {name} |-> IF n = name THEN index ELSE symbol_map[n]]

\* One constant symbol as the loop body builds it.
ELFConstSymbolGlobal(wr, symbol, name_index, rodata_offset) ==
  [name_index |-> name_index,
   value |-> rodata_offset + symbol.offset,
   content_size |-> symbol.size,
   section_index |-> wr.rodata_section.index,
   binding |-> "Global",
   type |-> "DataObject"]

ELFConstSymbol(wr, symbol, name_index, rodata_offset) ==
  [name_index |-> name_index,
   value |-> rodata_offset + symbol.offset,
   content_size |-> symbol.size,
   section_index |-> wr.rodata_section.index,
   binding |-> "Local",
   type |-> "DataObject"]

RECURSIVE ELFAddConstSymbolsUnchecked(_, _, _, _, _)
\* The loop over const_symbols as it would be if rodata_section.index did not
\* raise on None.
ELFAddConstSymbolsUnchecked(wr, syms, i, rodata_offset, symbol_map) ==
  IF i > Len(syms) THEN [writer |-> wr, symbol_map |-> symbol_map, error |-> "none"]
  ELSE
    LET name == StrtabAdd(wr.strtab, syms[i].name)
        sym == SymtabAdd(wr.symtab, ELFConstSymbol(wr, syms[i], name.index, rodata_offset))
        wr1 == [wr EXCEPT !.strtab = name.strtab, !.symtab = sym.symtab]
    IN ELFAddConstSymbolsUnchecked(wr1, syms, i + 1, rodata_offset,
                                   SymbolMapSet(symbol_map, syms[i].name, sym.index))

RECURSIVE ELFAddConstSymbols(_, _, _, _, _)
\* for symbol in encoded_function.const_symbols: ..., from the i-th symbol on.
\* self.rodata_section.index on None raises AttributeError after the name
\* has been added to the string table.
ELFAddConstSymbols(wr, syms, i, rodata_offset, symbol_map) ==
  IF i > Len(syms) THEN [writer |-> wr, symbol_map |-> symbol_map, error |-> "none"]
  ELSE
    LET name == StrtabAdd(wr.strtab, syms[i].name)
        wr1 == [wr EXCEPT !.strtab = name.strtab]
    IN IF wr.rodata_section.is_none
       THEN [writer |-> wr1, symbol_map |-> symbol_map, error |-> "AttributeError"]
       ELSE
         LET sym == SymtabAdd(wr.symtab,
                              ELFConstSymbol(wr, syms[i], name.index, rodata_offset))
             wr2 == [wr1 EXCEPT !.symtab = sym.symtab]
         IN ELFAddConstSymbols(wr2, syms, i + 1, rodata_offset,
                               SymbolMapSet(symbol_map, syms[i].name, sym.index))

\* The lazily bound .rela.text.
ELFBindRela(wr) ==
  IF wr.text_rela_section.is_none
  THEN [wr EXCEPT !.text_rela_section =
                     [is_none |-> FALSE, index |-> BindIndex(wr.sections), content |-> <<>>,
                      content_type |-> "AddendRelocations", content_size |-> 0,
                      link_index |-> IndexOf(wr.sections, ".symtab"),
                      info |-> wr.text_section.index,
                      entry_size |-> IF wr.abi.elf_bitness = 64 THEN 24 ELSE 12],
                  !.sections = Append(@, ".rela.text")]
  ELSE wr

\* One relocation entry: offset, info and addend, each through encoder.uint64.
ELFRelocation(abi, offset, symbol_index) ==
  EncoderUint64(abi, Word64(offset))
    \o EncoderUint64(abi, Or64(ShiftLeft32(Word64(symbol_index)), Word64(R_X86_64_PC32)))
    \o EncoderUint64(abi, Mask64(-4))

RECURSIVE ELFAddRelocations(_, _, _, _)
\* for relocation in encoded_function.code_relocations: ..., from the i-th on.
\* symbol_map[relocation.symbol] raises KeyError for a name not in the map.
ELFAddRelocations(wr, relocs, i, symbol_map) ==
  IF i > Len(relocs) THEN [writer |-> wr, error |-> "none"]
  ELSE IF relocs[i].symbol \notin DOMAIN symbol_map
  THEN [writer |-> wr, error |-> "KeyError"]
  ELSE
    LET relocation == ELFRelocation(wr.abi, relocs[i].offset, symbol_map[relocs[i].symbol])
        wr1 == [wr EXCEPT !.text_rela_section.content = @ \o relocation,
                          !.text_rela_section.content_size = @ + Len(relocation)]
    IN ELFAddRelocations(wr1, relocs, i + 1, symbol_map)

\* The function's own symbol.
ELFFunctionSymbol(wr, function, name_index, function_offset) ==
  [name_index |-> name_index,
   value |-> function_offset,
   content_size |-> Len(function.encoded.code_content),
   section_index |-> wr.text_section.index,
   binding |-> "Global",
   type |-> "Function"]

\* The tail of add_function: the function symbol is added last.
ELFAddFunctionSymbol(wr, function, function_offset) ==
  LET name == StrtabAdd(wr.strtab, function.name)
      sym == SymtabAdd(wr.symtab, ELFFunctionSymbol(wr, function, name.index, function_offset))
  IN [wr EXCEPT !.strtab = name.strtab, !.symtab = sym.symtab]

\* The constant symbols of one call, then its relocations.
ELFConstantsAndRelocations(wr, enc, rodata_offset) ==
  LET consts == ELFAddConstSymbols(wr, enc.const_symbols, 1, rodata_offset, <<>>)
  IN IF consts.error # "none" THEN [writer |-> consts.writer, error |-> consts.error]
     ELSE IF enc.code_relocations = <<>> THEN [writer |-> consts.writer, error |-> "none"]
     ELSE ELFAddRelocations(ELFBindRela(consts.writer), enc.code_relocations, 1,
                            consts.symbol_map)

\* ELFWriter.add_function: the writer afterwards and the error raised, if any.
ELFAddFunction(wr, function) ==
  IF ~IsABIFunction(function) THEN [writer |-> wr, error |-> "AssertionError"]
  ELSE
    LET enc == function.encoded
        function_offset == ELFFunctionOffset(wr, enc)
        wr1 == ELFAppendCode(wr, enc)
        rodata_offset == ELFRodataOffset(wr1, enc)
        wr2 == ELFAppendConst(wr1, enc)
        body == ELFConstantsAndRelocations(wr2, enc, rodata_offset)
    IN IF body.error # "none" THEN body
       ELSE [writer |-> ELFAddFunctionSymbol(body.writer, function, function_offset),
             error |-> "none"]

\* image.as_bytearray of the ELF image, in two parts: the headers and tables,
\* then the contents of the sections the writer bound.
ELFImageBytes(wr) ==
  <<[sections |-> wr.sections, symtab |-> wr.symtab, strtab |-> wr.strtab],
    [text |-> wr.text_section.content,
     rodata |-> wr.rodata_section.content,
     rela |-> wr.text_rela_section.content]>>

(***************************************************************************)
(* Mach-O and MS-COFF bookkeeping.                                         *)
(***************************************************************************)
\* MachOWriter.__init__: the Image comes with its text section.
MachOWriterInit(abi) ==
  [abi |-> abi,
   text_section |-> [index |-> 1, content |-> <<>>],
   string_table |-> <<>>,
   symbols |-> <<>>]

\* "_" + function.name
MachOSymbolNamePlain(function) == <<function.name>>

MachOSymbolName(function) == <<"_", function.name>>

\* MachOWriter.add_function
MachOAddFunction(wr, function) ==
  IF ~IsABIFunction(function) THEN [writer |-> wr, error |-> "AssertionError"]
  ELSE
    LET function_code == AsBlob(function.encoded)
        function_offset == Len(wr.text_section.content)
        name == StrtabAdd(wr.string_table, MachOSymbolName(function))
        function_symbol ==
          [description |-> "Defined", type |-> "SectionRelative", visibility |-> "External",
           string_index |-> name.index,
           section_index |-> wr.text_section.index,
           value |-> function_offset]
    IN [writer |-> [wr EXCEPT !.text_section.content = @ \o function_code,
                              !.string_table = name.strtab,
                              !.symbols = Append(@, function_symbol)],
        error |-> "none"]

\* image.as_bytearray of the Mach-O image.
MachOImageBytes(wr) ==
  <<[symbols |-> wr.symbols, string_table |-> wr.string_table],
    [text |-> wr.text_section.content]>>

\* MSCOFFWriter.__init__: one .text section, added at construction.
MSCOFFWriterInit(abi) ==
  [abi |-> abi,
   sections |-> <<".text">>,
   text_section |-> [index |-> 1, content |-> <<>>],
   symbols |-> <<>>]

\* MSCOFFWriter.add_function
MSCOFFAddFunction(wr, function) ==
  IF ~IsABIFunction(function) THEN [writer |-> wr, error |-> "AssertionError"]
  ELSE
    LET function_code == AsBlob(function.encoded)
        function_offset == Len(wr.text_section.content)
        function_symbol ==
          [value |-> function_offset,
           section_index |-> wr.text_section.index,
           symbol_type |-> "function",
           storage_class |-> "external",
           name |-> function.name]
    IN [writer |-> [wr EXCEPT !.text_section.content = @ \o function_code,
                              !.symbols = Append(@, function_symbol)],
        error |-> "none"]

\* image.as_bytearray of the MS-COFF image.
MSCOFFImageBytes(wr) ==
  <<[sections |-> wr.sections, symbols |-> wr.symbols],
    [text |-> wr.text_section.content]>>

(***************************************************************************)
(* The text writer.                                                        *)
(***************************************************************************)
AssemblyFormatsAndIntel == {"go", "nasm", "masm", "gas", "intel"}

AssemblyFormats == {"go", "nasm", "masm", "gas"}

\* Values a caller may pass as assembly_format.
Dialects == {"go", "nasm", "masm", "gas", "GAS", "intel"}

\* Values a caller may pass as input_path.
InputPaths == {None, "in.py"}

CommentPrefix(assembly_format) ==
  CASE assembly_format = "go" -> "//"
    [] assembly_format = "nasm" -> ";"
    [] assembly_format = "masm" -> ";"
    [] assembly_format = "gas" -> "#"
    [] OTHER -> "KeyError"

LineSep == <<"linesep">>

\* AssemblyWriter.__init__: the header is the banner and two line separators.
AssemblyWriterInit(assembly_format, input_path) ==
  IF assembly_format \notin AssemblyFormats THEN [error |-> "ValueError"]
  ELSE [error |-> "none",
        assembly_format |-> assembly_format,
        comment_prefix |-> CommentPrefix(assembly_format),
        output_header |->
          (IF input_path # None
           THEN <<CommentPrefix(assembly_format), "Generated by PeachPy", "from", input_path>>
           ELSE <<CommentPrefix(assembly_format), "Generated by PeachPy">>)
            \o LineSep \o LineSep]

\* What AssemblyWriter.add_function writes: function_code + os.linesep.
AssemblyFunctionText(wr, function) == Format(function, wr.assembly_format) \o LineSep

RECURSIVE AssemblyFileText(_, _)
\* The header and the text of the functions fs, in order.
AssemblyFileText(wr, functions) ==
  IF functions = <<>> THEN wr.output_header
  ELSE AssemblyFileText(wr, SubSeq(functions, 1, Len(functions) - 1))
         \o AssemblyFunctionText(wr, functions[Len(functions)])

(***************************************************************************)
(* The state after construction.                                           *)
(***************************************************************************)
ABIs == [elf_bitness : {32, 64}, endianness : {"little", "big"}]

DefaultABI == [elf_bitness |-> 64, endianness |-> "little"]

AbsentFile == [exists |-> FALSE, stale |-> FALSE, data |-> <<>>]

\* A file that was at output_path before the writer was entered.
StaleFile == [exists |-> TRUE, stale |-> TRUE, data |-> <<>>]

\* open(output_path, "w") creates or truncates the file.
EmptyFile == [exists |-> TRUE, stale |-> FALSE, data |-> <<>>]

\* The interpreters the program runs on.
Pythons == {2, 3}

NoOperation ==
  [op |-> "init", w |-> None, saved |-> None, exc_in |-> "none", exc_out |-> "none",
   fn |-> "none"]

InitWriters(cast, abi) ==
  [w \in cast |->
     CASE w = "text" -> AssemblyWriterInit("gas", None)
       [] w = "elf" -> ELFWriterInit(abi)
       [] w = "macho" -> MachOWriterInit(abi)
       [] w = "mscoff" -> MSCOFFWriterInit(abi)
       [] w = "null" -> [kind |-> "null"]]

\* The writers of cast are constructed; a file may be at an output path already.
InitWith(cast, abis) ==
  /\ active_writer = None
  /\ previous_writer = [w \in cast |-> None]
  /\ output_file = [w \in cast |-> "unset"]
  /\ fs \in [cast -> {AbsentFile, StaleFile}]
  /\ \A w \in cast \ FileWriters : fs[w] = AbsentFile
  /\ \E abi \in abis : writers = InitWriters(cast, abi)
  /\ stack = <<>>
  /\ exc = "none"
  /\ added = [w \in cast |-> <<>>]
  /\ last = NoOperation
  /\ buffer = [w \in cast |-> <<>>]
  /\ position = [w \in cast |-> 0]
  /\ python \in Pythons

Init ==
  \E cast \in SUBSET Writers :
    /\ Cardinality(cast) = MaxWriters
    /\ InitWith(cast, {DefaultABI})

(***************************************************************************)
(* The scoped lifecycle.  A with statement calls __enter__; when it raises *)
(* the block is not entered and __exit__ is never called.  __exit__ is     *)
(* called with the exception in flight, if any, when the block is left.    *)
(***************************************************************************)
OpenWriters == {stack[i].w : i \in 1..Len(stack)}

Top == stack[Len(stack)]

\* op of w: saved is the active writer when the block of w was entered, exc_in
\* the exception in flight when op began, exc_out the one in flight after it.
Operation(op, w, saved, exc_in, exc_out, fn) ==
  [op |-> op, w |-> w, saved |-> saved, exc_in |-> exc_in, exc_out |-> exc_out, fn |-> fn]

\* self.previous_writer = active_writer; active_writer = self
Activate(w) ==
  /\ previous_writer' = [previous_writer EXCEPT ![w] = active_writer]
  /\ active_writer' = w

\* The with block of w is entered.
Entered(w) ==
  /\ stack' = Append(stack, [w |-> w, saved |-> active_writer])
  /\ exc' = "none"
  /\ last' = Operation("enter", w, active_writer, "none", "none", "none")

\* __enter__ of w raised: no block is entered, the error is in flight.
EnterFailed(w, error) ==
  /\ stack' = stack
  /\ exc' = error
  /\ last' = Operation("enter_failed", w, active_writer, "none", error, "none")

\* The bytes a write past the end of a file leaves between the old end and
\* the text written.
NUL == "NUL"

RECURSIVE NULs(_)
NULs(n) == IF n = 0 THEN <<>> ELSE <<NUL>> \o NULs(n - 1)

\* The file after written is put at offset pos of a file that holds data.
Overlay(data, pos, written) ==
  IF written = <<>> THEN data
  ELSE LET base == IF Len(data) < pos THEN data \o NULs(pos - Len(data)) ELSE data
       IN SubSeq(base, 1, pos) \o written
            \o SubSeq(base, pos + Len(written) + 1, Len(base))

\* self.output_file.write(...); self.output_file.flush() with pending in the
\* file object, which writes at offset pos: everything reaches the file, or
\* the write raises after k pieces; what did not reach the file is dropped by
\* the file object (Python 2) or stays in its buffer (Python 3).
WriteOutcomes(data, pos, pending) ==
  {[data |-> Overlay(data, pos, SubSeq(pending, 1, k)),
    position |-> pos + k,
    buffer |-> IF python = 2 THEN <<>> ELSE SubSeq(pending, k + 1, Len(pending)),
    error |-> IF k = Len(pending) THEN "none" ELSE "IOError"] :
     k \in 0..Len(pending)}

\* self.output_file.close(): what the buffer holds is written, then the file
\* is closed; either can raise, and the file object is closed all the same.
CloseOutcomes(data, pos, pending) ==
  {[data |-> Overlay(data, pos, SubSeq(pending, 1, k)),
    error |-> IF k = Len(pending) THEN "none" ELSE "IOError"] :
     k \in 0..Len(pending)}
    \cup {[data |-> Overlay(data, pos, pending), error |-> "IOError"]}

\* The file object self.output_file of w is dropped while the file holds
\* data: an open file object writes what it holds, or a first part of it, at
\* its offset; an error is not raised.
Dropped(w, data) ==
  IF output_file[w] = "open"
  THEN {Overlay(data, position[w], SubSeq(buffer[w], 1, k)) : k \in 0..Len(buffer[w])}
  ELSE {data}

\* self.output_file of w becomes a file object or None.
OutputFile(w, state, pos, pending) ==
  /\ output_file' = [output_file EXCEPT ![w] = state]
  /\ position' = [position EXCEPT ![w] = pos]
  /\ buffer' = [buffer EXCEPT ![w] = pending]

\* AssemblyWriter.__enter__
AssemblyWriterEnter(w) ==
  /\ w = "text"
  /\ exc = "none"
  /\ Activate(w)
  /\ \/ \* open raises
        /\ UNCHANGED <<fs, output_file, position, buffer, added>>
        /\ EnterFailed(w, "IOError")
     \/ \* open creates or truncates the file and the file object it replaces
        \* is dropped; the header is written and flushed
        \E base \in Dropped(w, <<>>) :
          \E o \in WriteOutcomes(base, 0, writers[w].output_header) :
            /\ fs' = [fs EXCEPT ![w] = [EmptyFile EXCEPT !.data = o.data]]
            /\ OutputFile(w, "open", o.position, o.buffer)
            /\ added' = [added EXCEPT ![w] = <<>>]
            /\ IF o.error = "none" THEN Entered(w) ELSE EnterFailed(w, o.error)
  /\ UNCHANGED <<writers, python>>

\* ELFWriter.__enter__, MachOWriter.__enter__, MSCOFFWriter.__enter__
BinaryWriterEnter(w) ==
  /\ w \in BinaryWriters
  /\ exc = "none"
  /\ Activate(w)
  /\ \/ \* open succeeds (Python 2)
        /\ python = 2
        /\ fs' = [fs EXCEPT ![w] = EmptyFile]
        /\ OutputFile(w, "open", 0, <<>>)
        /\ Entered(w)
     \/ \* open raises
        /\ UNCHANGED <<fs, output_file, position, buffer>>
        /\ EnterFailed(w, "IOError")
     \/ \* open(path, "w", buffering=0) creates or truncates the file and then
        \* raises (Python 3: can't have unbuffered text I/O)
        /\ python = 3
        /\ fs' = [fs EXCEPT ![w] = EmptyFile]
        /\ UNCHANGED <<output_file, position, buffer>>
        /\ EnterFailed(w, "ValueError")
  /\ UNCHANGED <<writers, added, python>>

\* NullWriter.__enter__
NullWriterEnter(w) ==
  /\ w = "null"
  /\ exc = "none"
  /\ previous_writer' = [previous_writer EXCEPT ![w] = active_writer]
  /\ active_writer' = None
  /\ Entered(w)
  /\ UNCHANGED <<fs, output_file, writers, added, buffer, position, python>>

\* No reference to the instance w is held by the registry or by a writer.
Unreferenced(w) ==
  /\ active_writer # w
  /\ \A v \in DOMAIN previous_writer : previous_writer[v] # w
  /\ \A i \in 1..Len(stack) : stack[i].w # w /\ stack[i].saved # w

\* The name w is bound to the instance result, and the instance it stood for
\* is dropped with its file object.
Rebind(w, result) ==
  /\ writers' = [writers EXCEPT ![w] = result]
  /\ previous_writer' = [previous_writer EXCEPT ![w] = None]
  /\ IF fs[w].exists
     THEN \E data \in Dropped(w, fs[w].data) : fs' = [fs EXCEPT ![w].data = data]
     ELSE UNCHANGED fs
  /\ OutputFile(w, "unset", 0, <<>>)
  /\ added' = [added EXCEPT ![w] = <<>>]

\* AssemblyWriter(output_path, assembly_format, input_path), called in any
\* state: __init__ has no precondition on the registry or on other writers.
\* When __init__ raises, nothing changes.  When it returns, the caller either
\* drops the new instance, and nothing changes, or binds the name w to it.
\* The state holds one instance per name, so the name is rebound only where
\* the instance it stands for is referenced nowhere else and is dropped.
\* last.fn records assembly_format, last.w the name bound.
AssemblyWriterConstruct(w, assembly_format, input_path) ==
  /\ w = "text"
  /\ exc = "none"
  /\ LET result == AssemblyWriterInit(assembly_format, input_path)
     IN IF result.error = "none"
        THEN /\ exc' = "none"
             /\ \/ /\ Unreferenced(w)
                   /\ Rebind(w, result)
                   /\ last' = Operation("construct", w, active_writer, "none", "none",
                                        assembly_format)
                \/ /\ UNCHANGED <<writers, previous_writer, fs, output_file, position,
                                  buffer, added>>
                   /\ last' = Operation("construct", None, active_writer, "none", "none",
                                        assembly_format)
        ELSE /\ UNCHANGED <<writers, previous_writer, fs, output_file, position, buffer,
                           added>>
             /\ exc' = result.error
             /\ last' = Operation("construct", None, active_writer, "none", exc',
                                  assembly_format)
  /\ UNCHANGED <<active_writer, stack, python>>

\* active_writer = self.previous_writer
RestoredWriterNone(w) == None

RestoredWriter(w) == previous_writer[w]

\* active_writer = self.previous_writer; self.previous_writer = None
Restore(w) ==
  /\ active_writer' = RestoredWriter(w)
  /\ previous_writer' = [previous_writer EXCEPT ![w] = None]

\* The with block of w is left, error (or "none") leaving it.
Left(w, error) ==
  /\ stack' = SubSeq(stack, 1, Len(stack) - 1)
  /\ exc' = error
  /\ last' = Operation("exit", w, Top.saved, exc, error, "none")

CanExit(w) ==
  /\ stack # <<>>
  /\ Top.w = w

\* self.output_file is a file object, open or closed.
IsFileObject(w) == output_file[w] \in {"open", "closed"}

\* The else branch of __exit__: os.unlink(self.output_file.name), then raise.
Abort(w) ==
  \/ \* the file is removed and the exception in flight is re-raised
     /\ IsFileObject(w)
     /\ fs[w].exists
     /\ fs' = [fs EXCEPT ![w] = AbsentFile]
     /\ OutputFile(w, "None", 0, <<>>)
     /\ Left(w, exc)
  \/ \* os.unlink raises
     /\ IsFileObject(w)
     /\ UNCHANGED <<fs, output_file, position, buffer>>
     /\ Left(w, "OSError")
  \/ \* self.output_file is None: .name raises
     /\ ~IsFileObject(w)
     /\ UNCHANGED <<fs, output_file, position, buffer>>
     /\ Left(w, "AttributeError")

\* AssemblyWriter.__exit__
AssemblyWriterExit(w) ==
  /\ w = "text"
  /\ CanExit(w)
  /\ Restore(w)
  /\ IF exc = "none"
     THEN \/ \* self.output_file is None: .close raises
             /\ ~IsFileObject(w)
             /\ UNCHANGED <<fs, output_file, position, buffer>>
             /\ Left(w, "AttributeError")
          \/ \* close of a closed file object does nothing
             /\ output_file[w] = "closed"
             /\ UNCHANGED fs
             /\ OutputFile(w, "None", 0, <<>>)
             /\ Left(w, "none")
          \/ \* close, and self.output_file = None when it returns
             /\ output_file[w] = "open"
             /\ \E o \in CloseOutcomes(fs[w].data, position[w], buffer[w]) :
                  /\ fs' = [fs EXCEPT ![w].data = o.data]
                  /\ OutputFile(w, IF o.error = "none" THEN "None" ELSE "closed", 0, <<>>)
                  /\ Left(w, o.error)
     ELSE Abort(w)
  /\ UNCHANGED <<writers, added, python>>

\* image.as_bytearray of a binary writer.
ImageBytes(w) ==
  CASE w = "elf" -> ELFImageBytes(writers[w])
    [] w = "macho" -> MachOImageBytes(writers[w])
    [] w = "mscoff" -> MSCOFFImageBytes(writers[w])

\* self.output_file.write(self.image.as_bytearray); self.output_file.close()
WriteAndClose(w) ==
  \/ \* self.output_file is None: .write raises
     /\ ~IsFileObject(w)
     /\ UNCHANGED <<fs, output_file, position, buffer>>
     /\ Left(w, "AttributeError")
  \/ \* self.output_file is a closed file object: write raises
     /\ output_file[w] = "closed"
     /\ UNCHANGED <<fs, output_file, position, buffer>>
     /\ Left(w, "ValueError")
  \/ \* everything succeeds
     /\ output_file[w] = "open"
     /\ fs' = [fs EXCEPT ![w].data = Overlay(@, position[w], ImageBytes(w))]
     /\ OutputFile(w, "None", 0, <<>>)
     /\ Left(w, "none")
  \/ \* as_bytearray raises
     /\ IsFileObject(w)
     /\ UNCHANGED <<fs, output_file, position, buffer>>
     /\ Left(w, "SerializeError")
  \/ \* write raises after k parts of the image
     /\ output_file[w] = "open"
     /\ \E k \in 0..(Len(ImageBytes(w)) - 1) :
          /\ fs' = [fs EXCEPT ![w].data =
                      Overlay(@, position[w], SubSeq(ImageBytes(w), 1, k))]
          /\ OutputFile(w, "open", position[w] + k, <<>>)
     /\ Left(w, "IOError")
  \/ \* close raises: the file object is closed all the same
     /\ output_file[w] = "open"
     /\ fs' = [fs EXCEPT ![w].data = Overlay(@, position[w], ImageBytes(w))]
     /\ OutputFile(w, "closed", 0, <<>>)
     /\ Left(w, "IOError")

\* ELFWriter.__exit__
ELFWriterExit(w) ==
  /\ w = "elf"
  /\ CanExit(w)
  /\ Restore(w)
  /\ IF exc = "none"
     THEN \/ /\ writers' = [writers EXCEPT ![w].symtab_bound = TRUE]
             /\ WriteAndClose(w)
          \/ /\ UNCHANGED <<writers, fs, output_file, position, buffer>>
             /\ Left(w, "BindError")
     ELSE /\ Abort(w)
          /\ UNCHANGED writers
  /\ UNCHANGED <<added, python>>

\* MachOWriter.__exit__, MSCOFFWriter.__exit__
ImageWriterExit(w) ==
  /\ w \in {"macho", "mscoff"}
  /\ CanExit(w)
  /\ Restore(w)
  /\ IF exc = "none" THEN WriteAndClose(w) ELSE Abort(w)
  /\ UNCHANGED <<writers, added, python>>

\* NullWriter.__exit__ returns None: an exception in flight stays in flight.
NullWriterExit(w) ==
  /\ w = "null"
  /\ CanExit(w)
  /\ Restore(w)
  /\ Left(w, exc)
  /\ UNCHANGED <<fs, output_file, writers, added, buffer, position, python>>

\* The body of the innermost open block raises.
Raise ==
  /\ exc = "none"
  /\ stack # <<>>
  /\ exc' = "BodyError"
  /\ UNCHANGED <<active_writer, previous_writer, output_file, fs, writers, stack, added, last,
                 buffer, position, python>>

\* The caller handles the exception that left a with statement.
Catch ==
  /\ exc # "none"
  /\ exc' = "none"
  /\ UNCHANGED <<active_writer, previous_writer, output_file, fs, writers, stack, added, last,
                 buffer, position, python>>

(***************************************************************************)
(* add_function.                                                           *)
(***************************************************************************)
\* The result of add_function on a binary writer.
AddFunctionResult(w, function) ==
  CASE w = "elf" -> ELFAddFunction(writers[w], function)
    [] w = "macho" -> MachOAddFunction(writers[w], function)
    [] w = "mscoff" -> MSCOFFAddFunction(writers[w], function)

\* ELFWriter.add_function, MachOWriter.add_function, MSCOFFWriter.add_function
BinaryWriterAddFunction(w, function) ==
  /\ w \in BinaryWriters
  /\ exc = "none"
  /\ LET result == AddFunctionResult(w, function)
     IN /\ writers' = [writers EXCEPT ![w] = result.writer]
        /\ exc' = result.error
        /\ added' = IF result.error = "none"
                    THEN [added EXCEPT ![w] = Append(@, function)]
                    ELSE added
  /\ last' = Operation("add_function", w, None, "none", exc', function.name)
  /\ UNCHANGED <<active_writer, previous_writer, output_file, fs, stack, buffer, position,
                 python>>

\* AssemblyWriter.add_function: self.output_file must be the open file.
AssemblyWriterAddFunction(w, function) ==
  /\ w = "text"
  /\ exc = "none"
  /\ IF ~IsABIFunction(function)
     THEN exc' = "AssertionError" /\ UNCHANGED <<fs, added, buffer, position>>
     ELSE IF ~IsFileObject(w)
     THEN exc' = "AttributeError" /\ UNCHANGED <<fs, added, buffer, position>>
     ELSE IF output_file[w] = "closed"
     THEN exc' = "ValueError" /\ UNCHANGED <<fs, added, buffer, position>>
     ELSE \E o \in WriteOutcomes(fs[w].data, position[w],
                                 buffer[w] \o AssemblyFunctionText(writers[w], function)) :
            /\ fs' = [fs EXCEPT ![w].data = o.data]
            /\ buffer' = [buffer EXCEPT ![w] = o.buffer]
            /\ position' = [position EXCEPT ![w] = o.position]
            /\ exc' = o.error
            /\ added' = IF o.error = "none"
                        THEN [added EXCEPT ![w] = Append(@, function)]
                        ELSE added
  /\ last' = Operation("add_function", w, None, "none", exc', function.name)
  /\ UNCHANGED <<active_writer, previous_writer, output_file, writers, stack, python>>

(***************************************************************************)
(* Specifications.                                                         *)
(***************************************************************************)
RECURSIVE Total(_, _)
\* The number of functions added to the writers of S.
Total(S, a) ==
  IF S = {} THEN 0
  ELSE LET w == CHOOSE x \in S : TRUE IN Len(a[w]) + Total(S \ {w}, a)

\* The pieces of text a text writer's file and file object hold.
TextSize(w) == Len(fs[w].data) + Len(buffer[w])

\* Writers used in nested scopes, one open block per instance at a time.
Next ==
  \/ \E w \in DOMAIN writers \ OpenWriters : AssemblyWriterEnter(w)
  \/ \E w \in DOMAIN writers \ OpenWriters : BinaryWriterEnter(w)
  \/ \E w \in DOMAIN writers \ OpenWriters : NullWriterEnter(w)
  \/ \E w \in DOMAIN writers : AssemblyWriterExit(w)
  \/ \E w \in DOMAIN writers : ELFWriterExit(w)
  \/ \E w \in DOMAIN writers : ImageWriterExit(w)
  \/ \E w \in DOMAIN writers : NullWriterExit(w)
  \/ Raise
  \/ Catch
  \/ \E w \in OpenWriters, f \in ScopeFunctions :
       Total(DOMAIN added, added) < MaxAdds /\ BinaryWriterAddFunction(w, f)
  \/ \E w \in OpenWriters \cap {"text"}, f \in ScopeFunctions :
       /\ Total(DOMAIN added, added) < MaxAdds
       /\ TextSize(w) < MaxPieces
       /\ AssemblyWriterAddFunction(w, f)

Spec == Init /\ [][Next]_vars

\* Writers used in nested scopes without calls of add_function.
NextNest ==
  \/ \E w \in DOMAIN writers \ OpenWriters : AssemblyWriterEnter(w)
  \/ \E w \in DOMAIN writers \ OpenWriters : BinaryWriterEnter(w)
  \/ \E w \in DOMAIN writers \ OpenWriters : NullWriterEnter(w)
  \/ \E w \in DOMAIN writers : AssemblyWriterExit(w)
  \/ \E w \in DOMAIN writers : ELFWriterExit(w)
  \/ \E w \in DOMAIN writers : ImageWriterExit(w)
  \/ \E w \in DOMAIN writers : NullWriterExit(w)
  \/ Raise
  \/ Catch

SpecNest == Init /\ [][NextNest]_vars

\* One ELF writer of any ABI, driven with every output of the encoder.
InitELF == InitWith({"elf"}, ABIs) /\ fs["elf"] = AbsentFile

NextELF ==
  \E f \in EncodedFunctions :
    Len(added["elf"]) < MaxFunctions /\ BinaryWriterAddFunction("elf", f)

SpecELF == InitELF /\ [][NextELF]_vars

\* One image writer of any format and ABI, handed any function; the caller
\* handles an exception of add_function and goes on.
InitImage == \E w \in BinaryWriters : InitWith({w}, ABIs) /\ fs[w] = AbsentFile

TextLength(w) == Len(writers[w].text_section.content)

NextImage ==
  \/ \E w \in DOMAIN writers, f \in ImageFunctions :
       TextLength(w) < MaxText /\ BinaryWriterAddFunction(w, f)
  \/ Catch

SpecImage == InitImage /\ [][NextImage]_vars

\* One writer of any class with add_function, handed any function inside and
\* outside its scope; the scope of the text writer is also left.
InitAdd == \E w \in FileWriters : InitWith({w}, ABIs) /\ fs[w] = AbsentFile

NextAdd ==
  \/ \E w \in DOMAIN writers \ OpenWriters : AssemblyWriterEnter(w)
  \/ \E w \in DOMAIN writers \ OpenWriters : BinaryWriterEnter(w)
  \/ \E w \in DOMAIN writers \cap BinaryWriters, f \in ImageFunctions :
       TextLength(w) < MaxText /\ BinaryWriterAddFunction(w, f)
  \/ \E w \in DOMAIN writers \cap {"text"}, f \in TextFunctions :
       TextSize(w) < MaxPieces /\ AssemblyWriterAddFunction(w, f)
  \/ \E w \in DOMAIN writers : AssemblyWriterExit(w)
  \/ Raise
  \/ Catch

SpecAdd == InitAdd /\ [][NextAdd]_vars

\* Text writers of any dialect, constructed and used inside and outside the
\* scope of an ELF writer.
InitText == InitWith({"text", "elf"}, {DefaultABI})

NextText ==
  \/ \E w \in DOMAIN writers, assembly_format \in Dialects, input_path \in InputPaths :
       AssemblyWriterConstruct(w, assembly_format, input_path)
  \/ \E w \in DOMAIN writers \ OpenWriters : AssemblyWriterEnter(w)
  \/ \E w \in DOMAIN writers \ OpenWriters : BinaryWriterEnter(w)
  \/ \E w \in DOMAIN writers : AssemblyWriterExit(w)
  \/ \E w \in DOMAIN writers : ELFWriterExit(w)
  \/ Raise
  \/ Catch

SpecText == InitText /\ [][NextText]_vars

\* Writers used in nested scopes, an instance also inside its own scope.
NextReentrant ==
  \/ \E w \in DOMAIN writers : Len(stack) < MaxDepth /\ AssemblyWriterEnter(w)
  \/ \E w \in DOMAIN writers : Len(stack) < MaxDepth /\ BinaryWriterEnter(w)
  \/ \E w \in DOMAIN writers : Len(stack) < MaxDepth /\ NullWriterEnter(w)
  \/ \E w \in DOMAIN writers : AssemblyWriterExit(w)
  \/ \E w \in DOMAIN writers : ELFWriterExit(w)
  \/ \E w \in DOMAIN writers : ImageWriterExit(w)
  \/ \E w \in DOMAIN writers : NullWriterExit(w)
  \/ Raise
  \/ Catch

SpecReentrant == Init /\ [][NextReentrant]_vars

(***************************************************************************)
(* The registry and the scoped lifecycle (Spec, SpecNest).                 *)
(***************************************************************************)
\* The artifact a successful exit of w leaves for the functions added.
CompleteArtifact(w) ==
  IF w = "text" THEN AssemblyFileText(writers[w], added[w]) ELSE ImageBytes(w)

\* C1: when the block of any writer B is left, normally or with an error, the
\* active writer is again the writer that was active when B was entered, at
\* every depth of nesting.
C1_NestingRestoresOuter ==
  last.op = "exit" => active_writer = last.saved

\* A block nested in the block of an active writer was left with an error.
C1_Witness ==
  /\ last.op = "exit"
  /\ last.exc_in # "none"
  /\ stack # <<>>
  /\ last.saved = Top.w
  /\ active_writer = last.saved

\* C2: the active writer is the writer of the innermost open block, and none
\* when that writer is the Null writer or no block is open.
C2_ActiveIsInnermost ==
  active_writer = IF stack = <<>> THEN None
                  ELSE IF Top.w = "null" THEN None
                  ELSE Top.w

\* C3: once control has left a with statement, by a failed entry, a failed
\* body or a failed finalization, the active writer is the one saved at
\* activation.
C3_ActivationRestored ==
  last.op \in {"exit", "enter_failed"} => active_writer = last.saved

\* C4: when the body of a file-backed writer's block raises, after any number
\* of add_function calls, no file is at output_path once the block has been
\* left, whether or not one was there before.
C4_AbortLeavesNoFile ==
  (last.op = "exit" /\ last.w \in FileWriters /\ last.exc_in = "BodyError")
    => ~fs[last.w].exists

\* C5: after the block of a file-backed writer has been left by any path
\* (normal exit, error in the body, failed finalization) the file at
\* output_path is the complete artifact of the functions added or does not
\* exist.
C5_CompleteOrAbsent ==
  (last.op = "exit" /\ last.w \in FileWriters)
    => \/ ~fs[last.w].exists
       \/ fs[last.w].data = CompleteArtifact(last.w)

\* C6: on the abort path the error that leaves the block is the error that
\* was raised in the body, also when deleting the output file fails.
C6_OriginalErrorLeaves ==
  (last.op = "exit" /\ last.w \in FileWriters /\ last.exc_in = "BodyError")
    => last.exc_out = "BodyError"

(***************************************************************************)
(* The ELF image after add_function calls (SpecELF).                       *)
(***************************************************************************)
ELF == writers["elf"]

RECURSIVE SumCode(_, _)
\* The code bytes of the first k functions of fns.
SumCode(fns, k) ==
  IF k = 0 THEN 0 ELSE SumCode(fns, k - 1) + Len(fns[k].encoded.code_content)

RECURSIVE SumConst(_, _)
\* The constant data bytes of the first k functions of fns.
SumConst(fns, k) ==
  IF k = 0 THEN 0 ELSE SumConst(fns, k - 1) + Len(fns[k].encoded.const_content)

RECURSIVE SymbolBase(_, _)
\* The symbol table entries the first k - 1 calls made.
SymbolBase(fns, k) ==
  IF k <= 1 THEN 0
  ELSE SymbolBase(fns, k - 1) + Len(fns[k - 1].encoded.const_symbols) + 1

RECURSIVE RelocationOwners(_, _)
\* For every relocation of the first k functions, in order: the call and the
\* name it references.
RelocationOwners(fns, k) ==
  IF k = 0 THEN <<>>
  ELSE RelocationOwners(fns, k - 1)
         \o [i \in 1..Len(fns[k].encoded.code_relocations) |->
               [call |-> k,
                symbol |-> fns[k].encoded.code_relocations[i].symbol,
                offset |-> fns[k].encoded.code_relocations[i].offset]]

IsFunctionSymbol(sym) == sym.type = "Function"

\* The k-th relocation entry of .rela.text as it was appended: three 64-bit fields.
RelocationEntry(wr, k) ==
  LET bytes == SubSeq(wr.text_rela_section.content, 24 * (k - 1) + 1, 24 * k)
      info == DecodeUint64(wr.abi, SubSeq(bytes, 9, 16))
  IN [offset |-> FromDigits(DecodeUint64(wr.abi, SubSeq(bytes, 1, 8))),
      type |-> FromDigits(SubSeq(info, 1, 4)),
      symbol_index |-> FromDigits(SubSeq(info, 5, 8)),
      addend |-> Signed64(DecodeUint64(wr.abi, SubSeq(bytes, 17, 24)))]

\* C7: the function symbol of the k-th call has the value of the code bytes
\* of the k - 1 functions before it, and the functions tile .text in call
\* order without gaps or overlaps.
C7_TextLayout ==
  LET fns == added["elf"]
      syms == SelectSeq(ELF.symtab, IsFunctionSymbol)
  IN /\ Len(syms) = Len(fns)
     /\ Len(ELF.text_section.content) = SumCode(fns, Len(fns))
     /\ \A k \in 1..Len(fns) :
          /\ syms[k].value = SumCode(fns, k - 1)
          /\ k > 1 => syms[k].value = syms[k - 1].value + syms[k - 1].content_size
          /\ SubSeq(ELF.text_section.content, syms[k].value + 1,
                    syms[k].value + syms[k].content_size) = fns[k].encoded.code_content

\* Three functions were added, the last one after code of positive length.
C7_Witness ==
  /\ last.op = "add_function"
  /\ Len(added["elf"]) = 3
  /\ ELF.symtab[Len(ELF.symtab)].value > 0

\* C8: the symbol table holds, for every added function in call order, one
\* Local/DataObject symbol in .rodata per named constant and then the
\* Global/Function symbol in .text with the function's name and code length,
\* and nothing else.
C8_SymbolTable ==
  LET fns == added["elf"]
  IN /\ Len(ELF.symtab) = SymbolBase(fns, Len(fns) + 1)
     /\ Len(SelectSeq(ELF.symtab, IsFunctionSymbol)) = Len(fns)
     /\ \A k \in 1..Len(fns) :
          LET base == SymbolBase(fns, k)
              consts == fns[k].encoded.const_symbols
              fsym == ELF.symtab[base + Len(consts) + 1]
          IN /\ \A i \in 1..Len(consts) :
                  LET sym == ELF.symtab[base + i]
                  IN /\ sym.type = "DataObject"
                     /\ sym.binding = "Local"
                     /\ ~ELF.rodata_section.is_none
                     /\ sym.section_index = ELF.rodata_section.index
                     /\ ELF.sections[sym.section_index] = ".rodata"
                     /\ ELF.strtab[sym.name_index] = consts[i].name
                     /\ sym.content_size = consts[i].size
             /\ fsym.type = "Function"
             /\ fsym.binding = "Global"
             /\ ELF.sections[fsym.section_index] = ".text"
             /\ ELF.strtab[fsym.name_index] = fns[k].name
             /\ fsym.content_size = Len(fns[k].encoded.code_content)

\* Two functions, the second with one constant: three entries.
C8_Witness ==
  /\ added["elf"] = <<FnPlain, FnConst>>
  /\ Len(ELF.symtab) = 3

HasConst(function) == function.encoded.const_content # <<>>

IsPlain(function) ==
  /\ function.encoded.const_content = <<>>
  /\ function.encoded.const_symbols = <<>>
  /\ function.encoded.code_relocations = <<>>

\* .rodata is bound exactly when a function with constant data was added,
\* and holds the constant data of all added functions.
RodataPresence ==
  LET fns == added["elf"]
      any == \E k \in 1..Len(fns) : HasConst(fns[k])
  IN /\ ~ELF.rodata_section.is_none <=> any
     /\ IndexOf(ELF.sections, ".rodata") # 0 <=> any
     /\ Len(ELF.rodata_section.content) = SumConst(fns, Len(fns))

\* A call with a function without constants and relocations appends its code
\* to .text, adds its function symbol and changes nothing else.
PlainCall ==
  (last'.op = "add_function" /\ last' # last /\ Len(added'["elf"]) = Len(added["elf"]) + 1
     /\ IsPlain(added'["elf"][Len(added'["elf"])]))
    => /\ ELF'.rodata_section = ELF.rodata_section
       /\ ELF'.text_rela_section = ELF.text_rela_section
       /\ ELF'.sections = ELF.sections
       /\ Len(ELF'.symtab) = Len(ELF.symtab) + 1
       /\ SubSeq(ELF'.symtab, 1, Len(ELF.symtab)) = ELF.symtab
       /\ ELF'.symtab[Len(ELF'.symtab)].type = "Function"
       /\ Len(ELF'.strtab) = Len(ELF.strtab) + 1

\* C9: .rodata is bound if and only if an added function had constant data;
\* its length is the constant data of all added functions; a function with no
\* constants and no relocations touches only .text and its function symbol.
C9_RodataPresence == [](RodataPresence) /\ [][PlainCall]_vars

\* A plain function was added after one with constants, and .rodata is bound.
C9_Witness ==
  /\ Len(added["elf"]) >= 2
  /\ last.op = "add_function"
  /\ last.fn = FnPlain.name
  /\ ~ELF.rodata_section.is_none
  /\ HasConst(added["elf"][1])

\* C10: every relocation entry has type PC32, addend -4, and the symbol index
\* of the constant symbol of that name created by the same call.
C10_Relocations ==
  LET fns == added["elf"]
      owners == RelocationOwners(fns, Len(fns))
  IN /\ Len(ELF.text_rela_section.content) = 24 * Len(owners)
     /\ \A j \in 1..Len(owners) :
          LET entry == RelocationEntry(ELF, j)
              base == SymbolBase(fns, owners[j].call)
              consts == fns[owners[j].call].encoded.const_symbols
          IN /\ entry.type = R_X86_64_PC32
             /\ entry.addend = -4
             /\ entry.symbol_index \in (base + 1)..(base + Len(consts))
             /\ ELF.symtab[entry.symbol_index].type = "DataObject"
             /\ ELF.strtab[ELF.symtab[entry.symbol_index].name_index] = owners[j].symbol
             /\ consts[entry.symbol_index - base].name = owners[j].symbol

\* A function references its constant "c" after an earlier function defined
\* a constant of the same name.
C10_Witness ==
  /\ Len(added["elf"]) >= 2
  /\ added["elf"][1] = FnConst
  /\ added["elf"][2] = FnSameName
  /\ RelocationEntry(ELF, 2).symbol_index = 3

\* C11: every relocation entry is as wide as the entry size the .rela.text
\* header declares (24 for 64-bit, 12 for 32-bit targets): the declared
\* content size is the content length and is the number of relocations
\* emitted times the entry size.
C11_RelocationWidth ==
  LET fns == added["elf"]
      emitted == Len(RelocationOwners(fns, Len(fns)))
      rela == ELF.text_rela_section
  IN ~rela.is_none =>
       /\ rela.entry_size = (IF ELF.abi.elf_bitness = 64 THEN 24 ELSE 12)
       /\ rela.content_size = Len(rela.content)
       /\ rela.content_size = emitted * rela.entry_size

(***************************************************************************)
(* The images after add_function calls with any function (SpecImage).      *)
(***************************************************************************)
\* The writer of the run.
Image == writers[CHOOSE w \in DOMAIN writers : TRUE]

IsELF == "elf" \in DOMAIN writers

\* The symbols of the image's symbol table.
ImageSymbols == IF IsELF THEN Image.symtab ELSE Image.symbols

\* Symbol sym refers to a section that is bound to the image.
SectionBound(sym) ==
  IF IsELF
  THEN /\ sym.section_index \in 1..Len(Image.sections)
       /\ sym.type = "DataObject" =>
            /\ ~Image.rodata_section.is_none
            /\ sym.section_index = Image.rodata_section.index
            /\ Image.sections[sym.section_index] = ".rodata"
       /\ sym.type = "Function" => Image.sections[sym.section_index] = ".text"
  ELSE sym.section_index = Image.text_section.index

SymbolsBound == \A i \in 1..Len(ImageSymbols) : SectionBound(ImageSymbols[i])

\* The symbols a call adds refer to sections that are bound when the call is
\* over, and a call that finds .rodata unbound at a constant symbol adds none.
SymbolsAddedBound ==
  /\ Len(ImageSymbols') >= Len(ImageSymbols)
  /\ \A i \in (Len(ImageSymbols) + 1)..Len(ImageSymbols') : SectionBound(ImageSymbols[i])'
  /\ (exc = "none" /\ exc' = "AttributeError") => ImageSymbols' = ImageSymbols

\* C12: every symbol in a symbol table refers to a section that was bound
\* when the symbol was added; an ELF constant symbol is added only when
\* .rodata is bound, also for a function with named constants and no
\* constant data on a writer without .rodata, where the call raises instead.
C12_SymbolSections == [](SymbolsBound) /\ [][SymbolsAddedBound]_vars

\* A function with named constants and no constant data was handed to an ELF
\* writer that holds a symbol and has no .rodata.
C12_Witness ==
  /\ IsELF
  /\ last.op = "add_function"
  /\ last.fn = FnSymsNoData.name
  /\ exc = "AttributeError"
  /\ Image.rodata_section.is_none
  /\ Len(Image.symtab) >= 1
  /\ Image.strtab[Len(Image.strtab)] = "z"

\* The functions the writer of the run added.
ImageAdded == added[CHOOSE w \in DOMAIN writers : TRUE]

RECURSIVE SumBlob(_, _)
\* The bytes of the encoded blobs of the first k functions of fns.
SumBlob(fns, k) ==
  IF k = 0 THEN 0
  ELSE SumBlob(fns, k - 1) + Len(fns[k].encoded.code_content)
         + Len(fns[k].encoded.const_content)

\* C13: on a Mach-O or MS-COFF writer the k-th function added has exactly
\* one symbol, the k-th, whose value is the length of the blobs of the k - 1
\* functions before it and whose section is the text section; the Mach-O
\* name is the function name after one underscore, the MS-COFF name is the
\* function name; there are no other symbols, names or sections.
C13_ImageLayout ==
  ~IsELF =>
    LET fns == ImageAdded
    IN /\ Len(Image.symbols) = Len(fns)
       /\ Len(Image.text_section.content) = SumBlob(fns, Len(fns))
       /\ \A k \in 1..Len(fns) :
            /\ Image.symbols[k].value = SumBlob(fns, k - 1)
            /\ Image.symbols[k].section_index = Image.text_section.index
            /\ SubSeq(Image.text_section.content, SumBlob(fns, k - 1) + 1, SumBlob(fns, k))
                 = fns[k].encoded.code_content \o fns[k].encoded.const_content
            /\ "macho" \in DOMAIN writers =>
                 /\ Image.string_table[Image.symbols[k].string_index] = <<"_", fns[k].name>>
                 /\ Image.symbols[k].string_index = k
            /\ "mscoff" \in DOMAIN writers => Image.symbols[k].name = fns[k].name
       /\ "macho" \in DOMAIN writers => Len(Image.string_table) = Len(fns)
       /\ "mscoff" \in DOMAIN writers => Image.sections = <<".text">>

\* A Mach-O writer added a function after one with code and constant data.
C13_Witness ==
  /\ "macho" \in DOMAIN writers
  /\ Len(ImageAdded) >= 2
  /\ ImageAdded[1] = FnNoReloc
  /\ Image.symbols[2].value = 2
  /\ last.op = "add_function"

(***************************************************************************)
(* The text writer (SpecText).                                             *)
(***************************************************************************)
\* The step is a call of the AssemblyWriter constructor.
ConstructStep == last'.op = "construct" /\ exc = "none" /\ exc' # "BodyError"

\* Construction succeeds for go, nasm, masm and gas and raises ValueError for
\* any other value, in every state; in both cases the registry does not
\* change, and a failed construction changes nothing at all: no file and no
\* writer.  A new instance bound to the name has the dialect and no file.
ConstructionChecked ==
  ConstructStep =>
    /\ exc' = "none" <=> last'.fn \in {"go", "nasm", "masm", "gas"}
    /\ exc' \in {"none", "ValueError"}
    /\ UNCHANGED <<active_writer, stack>>
    /\ last'.w = "text" =>
         /\ exc' = "none"
         /\ writers'["text"].assembly_format = last'.fn
         /\ output_file'["text"] = "unset"
    /\ (exc' # "none" \/ last'.w = None) =>
         UNCHANGED <<writers, previous_writer, fs, output_file, added, buffer, position>>

\* C14: constructing a text writer succeeds for the dialects go, nasm, masm
\* and gas and fails with ValueError for every other value, before any file
\* is opened or written and with the active writer unchanged.
C14_DialectChecked == [][ConstructionChecked]_vars

\* A construction with an unknown dialect failed inside the scope of the
\* text writer, entered inside the scope of an ELF writer, with both files
\* open.
C14_Witness ==
  /\ last.op = "construct"
  /\ last.fn = "intel"
  /\ exc = "ValueError"
  /\ active_writer = "text"
  /\ previous_writer["text"] = "elf"
  /\ output_file["text"] = "open"
  /\ output_file["elf"] = "open"
  /\ fs["text"].data = writers["text"].output_header

\* The number of sections of the image named name.
Bound(name) == Cardinality({i \in 1..Len(Image.sections) : Image.sections[i] = name})

\* .text is bound, .rodata and .rela.text at most once, each at the index its
\* section holds; after a call that returned normally a bound .rela.text
\* comes after a bound .rodata.
SectionOrder ==
  IsELF =>
    /\ Bound(".text") = 1
    /\ Image.sections[Image.text_section.index] = ".text"
    /\ Bound(".rodata") = (IF Image.rodata_section.is_none THEN 0 ELSE 1)
    /\ Bound(".rela.text") = (IF Image.text_rela_section.is_none THEN 0 ELSE 1)
    /\ ~Image.rodata_section.is_none =>
         /\ Image.sections[Image.rodata_section.index] = ".rodata"
         /\ Image.text_section.index < Image.rodata_section.index
    /\ ~Image.text_rela_section.is_none =>
         Image.sections[Image.text_rela_section.index] = ".rela.text"
    /\ (last.op = "add_function" /\ last.exc_out = "none"
          /\ ~Image.text_rela_section.is_none) =>
         /\ ~Image.rodata_section.is_none
         /\ Image.rodata_section.index < Image.text_rela_section.index

\* A section that is bound stays bound at its index, and a call binds .rodata
\* only with constant data and .rela.text only with relocations.
SectionsKept ==
  IsELF =>
    /\ Image.text_section.index' = Image.text_section.index
    /\ ~Image.rodata_section.is_none =>
         /\ ~Image.rodata_section.is_none'
         /\ Image.rodata_section.index' = Image.rodata_section.index
    /\ ~Image.text_rela_section.is_none =>
         /\ ~Image.text_rela_section.is_none'
         /\ Image.text_rela_section.index' = Image.text_rela_section.index
    /\ SubSeq(Image.sections', 1, Len(Image.sections)) = Image.sections

\* C15: .text is bound at construction, .rodata and .rela.text are bound at
\* most once, a section's index never changes, and whenever .rela.text is
\* bound after a call that returned normally, .rodata is bound with a smaller
\* index: the order is .text, .rodata, .rela.text.
C15_SectionOrder == [](SectionOrder) /\ [][SectionsKept]_vars

RECURSIVE RenderedFile(_, _)
\* The header of wr, then every function of fns rendered in the dialect of wr
\* and followed by one line terminator.
RenderedFile(wr, fns) ==
  IF fns = <<>> THEN wr.output_header
  ELSE RenderedFile(wr, SubSeq(fns, 1, Len(fns) - 1))
         \o Format(fns[Len(fns)], wr.assembly_format) \o LineSep

IsPrefix(s, t) == Len(s) <= Len(t) /\ SubSeq(t, 1, Len(s)) = s

TextOpen == "text" \in OpenWriters

\* Inside the scope the file holds the header and the functions added so far.
TextFileRendered ==
  TextOpen =>
    /\ fs["text"].exists
    /\ fs["text"].data = RenderedFile(writers["text"], added["text"])

\* Inside the scope, and when the scope is left without an exception, the
\* file only grows at its end.
TextFileGrows ==
  (TextOpen /\ (TextOpen' \/ (last'.op = "exit" /\ last'.w = "text"
                                /\ last'.exc_in = "none")))
    => IsPrefix(fs["text"].data, fs'["text"].data)

\* C16: between scope entry and scope exit the output file of the text
\* writer is the header followed by the rendered text of the functions added
\* so far, in call order, each followed by one line terminator, and so a
\* prefix of the file that a successful scope exit leaves.
C16_TextPrefix == [](TextFileRendered) /\ [][TextFileGrows]_vars

(***************************************************************************)
(* add_function without an ABI (SpecAdd).                                  *)
(***************************************************************************)
\* The step is a call of add_function with a function that has no ABI.
UnboundCall ==
  /\ exc = "none"
  /\ exc' # "BodyError"
  /\ last'.op = "add_function"
  /\ last'.fn = FnUnbound.name

\* The call raises AssertionError and changes nothing.
UnboundRejected ==
  UnboundCall =>
    /\ exc' = "AssertionError"
    /\ UNCHANGED
         <<writers, fs, output_file, active_writer, previous_writer, stack, added, buffer,
           position>>

\* C17: add_function of any writer, called with a function that is not bound
\* to an ABI, raises the precondition violation and leaves the writer as it
\* was: no section content, symbol, string-table entry, relocation or file
\* output is added, and the active writer is unchanged.
C17_UnboundRejected == [][UnboundRejected]_vars

\* An unbound function was handed to the active writer after it had added a
\* function.
C17_Witness ==
  /\ last.op = "add_function"
  /\ last.fn = FnUnbound.name
  /\ exc = "AssertionError"
  /\ active_writer # None
  /\ Len(added[active_writer]) >= 1

(***************************************************************************)
(* One instance entered inside its own scope (SpecReentrant).              *)
(***************************************************************************)
\* The step leaves the outer of two nested scopes of one instance: the inner
\* scope was the last one left, without an exception, and the writer saved at
\* the outer entry was None or a writer whose scope is open.
OuterExit ==
  /\ stack # <<>>
  /\ stack' = SubSeq(stack, 1, Len(stack) - 1)
  /\ last.op = "exit"
  /\ last.w = Top.w
  /\ last.exc_out = "none"
  /\ Top.saved = None \/ Top.saved \in OpenWriters

ReentrantRestored ==
  OuterExit =>
    /\ active_writer' = Top.saved
    /\ previous_writer'[Top.w] = None

\* C18: when a writer instance is entered inside its own scope and both
\* scopes are left innermost first, the active writer after the outer exit
\* is the active writer from before the outer entry, and the instance's
\* previous_writer is None.
C18_ReentrantRestores == [][ReentrantRestored]_vars

(***************************************************************************)
(* The ELF image after calls that return and calls that raise (SpecImage). *)
(***************************************************************************)
RECURSIVE SumSizes(_)
\* The sizes of the function symbols of symtab.
SumSizes(symtab) ==
  IF symtab = <<>> THEN 0
  ELSE SumSizes(SubSeq(symtab, 1, Len(symtab) - 1))
         + (IF IsFunctionSymbol(symtab[Len(symtab)])
            THEN symtab[Len(symtab)].content_size ELSE 0)

RECURSIVE ConstOwners(_, _)
\* For every constant symbol of the first k functions, in order: its call.
ConstOwners(fns, k) ==
  IF k = 0 THEN <<>>
  ELSE ConstOwners(fns, k - 1) \o [i \in 1..Len(fns[k].encoded.const_symbols) |-> k]

IsDataObject(sym) == sym.type = "DataObject"

\* Every byte of .text belongs to a function symbol.
TextCovered == Len(Image.text_section.content) = SumSizes(Image.symtab)

\* The bytes of every constant symbol are bytes of .rodata that the call of
\* its function appended.
ConstantsInSlices ==
  LET fns == ImageAdded
      owners == ConstOwners(fns, Len(fns))
      syms == SelectSeq(Image.symtab, IsDataObject)
  IN /\ Len(syms) = Len(owners)
     /\ \A j \in 1..Len(syms) :
          \A byte \in syms[j].value..(syms[j].value + syms[j].content_size - 1) :
            /\ byte < Len(Image.rodata_section.content)
            /\ byte >= SumConst(fns, owners[j] - 1)
            /\ byte < SumConst(fns, owners[j])

\* C19: the length of .text is the sum of the sizes of the function symbols,
\* after a call that returned and after a call that raised once the function
\* was encoded, so that no code byte is left without a function symbol; and
\* every constant symbol that lies within its function's constant data lies
\* within the part of .rodata that its function appended.
C19_ImageConsistent == IsELF => (TextCovered /\ ConstantsInSlices)

====
